---- MODULE Spec2Model ----
(***************************************************************************)
(* Model of the four Mistral example commands                              *)
(*   examples-cli/ai-mistral-text/command.py                               *)
(*   examples-cli/ai-mistral-embeddings/command.py                         *)
(*   examples-cli/mistral-moderations/command.py                           *)
(*   examples-cli/ai-mistral-image-gen/command.py                          *)
(* Each command takes (args, context), talks to the remote provider, and   *)
(* writes its result or an error message back into the context.            *)
(***************************************************************************)
EXTENDS Integers, Sequences, FiniteSets, TLC

\* ------------------------------------------------------------------------
\* Bounds
\* ------------------------------------------------------------------------
\* number of command calls made on one context
MaxCalls == 2
\* number of chunks in the content of an image conversation output
MaxChunks == 2

\* ------------------------------------------------------------------------
\* Python / JSON values, tagged by their type
\* ------------------------------------------------------------------------
None == [t |-> "null", v |-> ""]
Str(s) == [t |-> "str", v |-> s]
Num(n) == [t |-> "num", v |-> n]
Bool(b) == [t |-> "bool", v |-> b]
List(xs) == [t |-> "list", v |-> xs]
Obj(f) == [t |-> "obj", v |-> f]
EmptyDict == Obj(<<>>)

\* Python truthiness, as used by `not x`
Truthy(x) ==
  CASE x.t = "null" -> FALSE
    [] x.t = "str" -> x.v # ""
    [] x.t = "num" -> x.v # 0
    [] x.t = "bool" -> x.v
    [] x.t = "list" -> Len(x.v) > 0
    [] x.t = "obj" -> DOMAIN x.v # {}

\* dict.get(k, d) on a mapping from key strings to values
DictGet(d, k, default) == IF k \in DOMAIN d THEN d[k] ELSE default

\* context[k] = v
Put(d, k, val) == [x \in (DOMAIN d) \cup {k} |-> IF x = k THEN val ELSE d[x]]

\* substring test on strings
Contains(s, sub) ==
  \E i \in 1..(Len(s) - Len(sub) + 1) : SubSeq(s, i, i + Len(sub) - 1) = sub

\* ------------------------------------------------------------------------
\* Outcome of one command call
\*   ctx     the context after the call
\*   ret     the returned status as Num(n); None when an exception left the call
\*   exc     "" or the name of the exception that propagated to the caller
\*   written the keys assigned by `context[k] = ...` during the call
\*   net     the outbound calls made, in order
\*   payload the request body sent (NoPayload when none was sent)
\*   files   the files written to disk, in order
\* ------------------------------------------------------------------------
NoPayload == EmptyDict

Return(c, status, keys, calls, body) ==
  [ctx |-> c, ret |-> Num(status), exc |-> "", written |-> keys, net |-> calls,
   payload |-> body, files |-> <<>>]

Raise(c, name, keys, calls, body) ==
  [ctx |-> c, ret |-> None, exc |-> name, written |-> keys, net |-> calls,
   payload |-> body, files |-> <<>>]

\* ------------------------------------------------------------------------
\* The remote side of requests.post: a transport failure or a response
\* ------------------------------------------------------------------------
Transport(msg) == [ok |-> FALSE, err |-> msg, status_code |-> 0, text |-> ""]
Response(code, body) == [ok |-> TRUE, err |-> "", status_code |-> code, text |-> body]
NoHttp == [ok |-> FALSE, err |-> "", status_code |-> 0, text |-> ""]

BodyChat == "{\"choices\":[{\"message\":{\"content\":\"Hi\"}}]}"
BodyNoChoices == "{\"choices\":[]}"
BodyEmptyObj == "{}"
BodyNotJSON == "<html>Bad Gateway</html>"
BodyOneEmbedding == "{\"data\":[{\"embedding\":[1,2]}]}"
BodyTwoEmbeddings == "{\"data\":[{\"embedding\":[1,2]},{\"embedding\":[3,4]}]}"
BodyItemNoEmbedding == "{\"data\":[{\"index\":0}]}"
BodyItemNotDict == "{\"data\":[7]}"
BodyModeration == "{\"results\":[{\"flagged\":false}]}"
BodyUnauthorized == "{\"message\":\"Unauthorized\"}"

JSONInvalid == [t |-> "invalid", v |-> ""]

\* response.json(): the decoded body, or JSONInvalid when decoding raises
ParseJSON(text) ==
  CASE text = BodyChat ->
         Obj([choices |-> List(<<Obj([message |-> Obj([content |-> Str("Hi")])])>>)])
    [] text = BodyNoChoices -> Obj([choices |-> List(<<>>)])
    [] text = BodyEmptyObj -> EmptyDict
    [] text = BodyOneEmbedding ->
         Obj([data |-> List(<<Obj([embedding |-> List(<<Num(1), Num(2)>>)])>>)])
    [] text = BodyTwoEmbeddings ->
         Obj([data |-> List(<<Obj([embedding |-> List(<<Num(1), Num(2)>>)]),
                              Obj([embedding |-> List(<<Num(3), Num(4)>>)])>>)])
    [] text = BodyItemNoEmbedding -> Obj([data |-> List(<<Obj([index |-> Num(0)])>>)])
    [] text = BodyItemNotDict -> Obj([data |-> List(<<Num(7)>>)])
    [] text = BodyModeration ->
         Obj([results |-> List(<<Obj([flagged |-> Bool(FALSE)])>>)])
    [] text = BodyUnauthorized -> Obj([message |-> Str("Unauthorized")])
    [] OTHER -> JSONInvalid

\* a key test that only notices an absent key, not an empty one
MissingKeyOnlyAbsent(api_key) == api_key.t = "null"

\* `not api_key`
MissingKey(api_key) == ~Truthy(api_key)

\* a status test by class: anything in 200..299 passes
StatusOutside2xx(status_code) == status_code \notin 200..299

\* `response.status_code != 200`
StatusIsError(status_code) == status_code # 200

\* f"API returned HTTP {response.status_code}: {response.text}"
HttpErrorMessage(http) ==
  "API returned HTTP " \o ToString(http.status_code) \o ": " \o http.text

\* ------------------------------------------------------------------------
\* ai_mistral_text
\* ------------------------------------------------------------------------
TextUsage ==
  "Usage: ai_mistral_text <prompt> [reasoning_effort]\n" \o
  "ai_mistral_text:\n" \o
  "    args:\n" \o
  "        - prompt\n" \o
  "        - reasoning_effort (optional) // High; defaults to None\n" \o
  "    context:\n" \o
  "        - MISTRAL_API_KEY: The API key for accessing the Mistral API.\n" \o
  "        - SYSTEM_PROMPT: The system prompt to be used in the API call.\n" \o
  "        - MISTRAL_MODEL: Optional custom model to use.\n" \o
  "        - MISTRAL_MESSAGES: Optional fully custom message list.\n" \o
  "        - MISTRAL_TEMPERATURE: Optional float (0.0-2.0) for sampling randomness.\n" \o
  "        - MISTRAL_K: Optional int for top-k sampling.\n"

Message(role, content) == Obj([role |-> Str(role), content |-> content])

\* a message builder that puts the system prompt in front of MISTRAL_MESSAGES
BuildMessagesWithSystem(context, prompt, system_prompt) ==
  LET start == IF Truthy(system_prompt)
               THEN <<Message("system", system_prompt)>> ELSE <<>>
      base == IF "MISTRAL_MESSAGES" \in DOMAIN context
              THEN context["MISTRAL_MESSAGES"].v ELSE <<>>
  IN [exc |-> "", messages |-> List(Append(start \o base, Message("user", prompt))),
      ctx |-> context]

\* Building the message list.  `messages = context['MISTRAL_MESSAGES']` binds
\* the caller's list object, so the append that follows changes the list held
\* by the context as well.  Gives the list sent and the context afterwards;
\* exc names the AttributeError raised when the entry has no append.
BuildMessages(context, prompt, system_prompt) ==
  IF "MISTRAL_MESSAGES" \in DOMAIN context
  THEN LET base == context["MISTRAL_MESSAGES"] IN
       IF base.t # "list"
       THEN [exc |-> "AttributeError", messages |-> List(<<>>), ctx |-> context]
       ELSE LET messages == List(Append(base.v, Message("user", prompt))) IN
            [exc |-> "", messages |-> messages,
             ctx |-> [context EXCEPT !["MISTRAL_MESSAGES"] = messages]]
  ELSE LET start == IF Truthy(system_prompt)
                    THEN <<Message("system", system_prompt)>> ELSE <<>> IN
       [exc |-> "", messages |-> List(Append(start, Message("user", prompt))),
        ctx |-> context]

\* decoded.get('choices', [{}])[0].get('message', {}).get('content', '')
TextContent(decoded) ==
  IF decoded.t # "obj" THEN [exc |-> "AttributeError", v |-> None]
  ELSE LET choices == DictGet(decoded.v, "choices", List(<<EmptyDict>>)) IN
    IF choices.t # "list" THEN [exc |-> "TypeError", v |-> None]
    ELSE IF Len(choices.v) = 0 THEN [exc |-> "IndexError", v |-> None]
    ELSE LET first == choices.v[1] IN
      IF first.t # "obj" THEN [exc |-> "AttributeError", v |-> None]
      ELSE LET message == DictGet(first.v, "message", EmptyDict) IN
        IF message.t # "obj" THEN [exc |-> "AttributeError", v |-> None]
        ELSE [exc |-> "", v |-> DictGet(message.v, "content", Str(""))]

ChatPost == "POST https://api.mistral.ai/v1/chat/completions"

ai_mistral_text(args, context, http) ==
  LET set_name == DictGet(context, "set_context", Str("prev")).v
      error_key == set_name \o "_error"
      api_key == DictGet(context, "MISTRAL_API_KEY", None)
  IN
  IF ~Truthy(args)
  THEN Return(Put(context, error_key, Str(TextUsage)), 1, {error_key}, <<>>, NoPayload)
  ELSE IF MissingKey(api_key)
  THEN Return(Put(context, error_key, Str("Error: MISTRAL_API_KEY is not set in context.")),
              1, {error_key}, <<>>, NoPayload)
  ELSE
  LET prompt == args.v[1]
      reasoning_effort == IF Len(args.v) > 1 THEN args.v[2] ELSE None
      system_prompt == DictGet(context, "SYSTEM_PROMPT", Str(""))
      model == DictGet(context, "MISTRAL_MODEL", Str("mistral-large-latest"))
      built == BuildMessages(context, prompt, system_prompt)
      ctx1 == built.ctx
      base == [model |-> model, messages |-> built.messages,
               reasoning_effort |-> reasoning_effort]
      withT == IF "MISTRAL_TEMPERATURE" \in DOMAIN context
               THEN Put(base, "temperature", context["MISTRAL_TEMPERATURE"]) ELSE base
      withK == IF "MISTRAL_K" \in DOMAIN context
               THEN Put(withT, "k", context["MISTRAL_K"]) ELSE withT
      payload == Obj(withK)
  IN
  IF built.exc # "" THEN Raise(context, built.exc, {}, <<>>, NoPayload)
  ELSE IF ~http.ok
  THEN Return(Put(ctx1, error_key, Str("Request error: " \o http.err)),
              1, {error_key}, <<ChatPost>>, payload)
  ELSE IF StatusIsError(http.status_code)
  THEN Return(Put(ctx1, error_key, Str(HttpErrorMessage(http))),
              1, {error_key}, <<ChatPost>>, payload)
  ELSE
  LET decoded == ParseJSON(http.text) IN
  IF decoded.t = "invalid" THEN Raise(ctx1, "JSONDecodeError", {}, <<ChatPost>>, payload)
  ELSE LET content == TextContent(decoded) IN
    IF content.exc # "" THEN Raise(ctx1, content.exc, {}, <<ChatPost>>, payload)
    ELSE Return(Put(ctx1, set_name, content.v), 0, {set_name}, <<ChatPost>>, payload)

\* ------------------------------------------------------------------------
\* ai_mistral_embeddings
\* ------------------------------------------------------------------------
\* [item.get("embedding") for item in decoded.get("data", [])]
Embeddings(decoded) ==
  IF decoded.t # "obj" THEN [exc |-> "AttributeError", v |-> <<>>]
  ELSE LET data == DictGet(decoded.v, "data", List(<<>>)) IN
    IF data.t \in {"null", "num", "bool"} THEN [exc |-> "TypeError", v |-> <<>>]
    ELSE IF data.t \in {"str", "obj"}
    THEN IF Truthy(data) THEN [exc |-> "AttributeError", v |-> <<>>]
         ELSE [exc |-> "", v |-> <<>>]
    ELSE IF \E i \in 1..Len(data.v) : data.v[i].t # "obj"
    THEN [exc |-> "AttributeError", v |-> <<>>]
    ELSE [exc |-> "",
          v |-> [i \in 1..Len(data.v) |-> DictGet(data.v[i].v, "embedding", None)]]

\* a store that never unwraps
StoreEmbeddingsAsList(embeddings, first_arg) == List(embeddings)

\* the value stored under set_name on success
StoreEmbeddings(embeddings, first_arg) ==
  IF Len(embeddings) = 1 /\ first_arg.t = "str" THEN embeddings[1] ELSE List(embeddings)

EmbeddingsPost == "POST https://api.mistral.ai/v1/embeddings"

ai_mistral_embeddings(args, context, http) ==
  LET set_name == DictGet(context, "set_context", Str("prev")).v
      error_key == set_name \o "_error"
      api_key == DictGet(context, "MISTRAL_API_KEY", None)
  IN
  IF ~Truthy(args) \/ args.v[1].t = "null"
  THEN Return(Put(context, error_key, Str("Usage: ai_mistral_embeddings <text>")),
              -1, {error_key}, <<>>, NoPayload)
  ELSE IF MissingKey(api_key)
  THEN Return(Put(context, error_key, Str("Error: MISTRAL_API_KEY not found in context.")),
              -1, {error_key}, <<>>, NoPayload)
  ELSE
  LET input_text == args.v[1]
      model == DictGet(context, "MISTRAL_MODEL", Str("mistral-embed"))
      payload == Obj([model |-> model, input |-> input_text])
  IN
  IF ~http.ok
  THEN Return(Put(context, error_key, Str("Request error: " \o http.err)),
              -1, {error_key}, <<EmbeddingsPost>>, payload)
  ELSE IF StatusIsError(http.status_code)
  THEN Return(Put(context, error_key, Str(HttpErrorMessage(http))),
              -1, {error_key}, <<EmbeddingsPost>>, payload)
  ELSE
  LET decoded == ParseJSON(http.text)
      embeddings == Embeddings(decoded)
      exc == IF decoded.t = "invalid" THEN "JSONDecodeError" ELSE embeddings.exc
  IN
  IF exc # ""
  THEN Return(Put(context, error_key, Str("Error parsing response: " \o exc)),
              -1, {error_key}, <<EmbeddingsPost>>, payload)
  ELSE Return(Put(context, set_name, StoreEmbeddings(embeddings.v, args.v[1])),
              0, {set_name}, <<EmbeddingsPost>>, payload)

\* ------------------------------------------------------------------------
\* mistral_moderations
\* ------------------------------------------------------------------------
ModerationUsage ==
  Obj([description |-> Str("Moderate text using Mistral Moderation API"),
       args |-> List(<<Str("input_text (required) - Text to moderate")>>),
       context |-> List(<<
         Str("MISTRAL_API_KEY: The API key for accessing the Mistral API"),
         Str("MISTRAL_MODERATION_MODEL: (optional) Model to use (default: mistral-moderation-latest)")>>),
       example |-> Str("mistral_moderations([\"This is some text to moderate\"], context)")])

ModerationsPost == "POST https://api.mistral.ai/v1/moderations"

mistral_moderations(args, context, http) ==
  LET set_name == DictGet(context, "set_context", Str("prev")).v
      error_key == set_name \o "_error"
      usage_key == set_name \o "_usage"
      api_key == DictGet(context, "MISTRAL_API_KEY", None)
  IN
  IF ~Truthy(args) \/ args.v[1].t = "null"
  THEN Return(Put(context, usage_key, ModerationUsage), -1, {usage_key}, <<>>, NoPayload)
  ELSE IF MissingKey(api_key)
  THEN Return(Put(context, error_key, Str("Error: MISTRAL_API_KEY is not set in context")),
              -1, {error_key}, <<>>, NoPayload)
  ELSE
  LET input_text == args.v[1]
      model == DictGet(context, "MISTRAL_MODERATION_MODEL", Str("mistral-moderation-latest"))
      payload == Obj([input |-> input_text, model |-> model])
  IN
  IF ~http.ok
  THEN Return(Put(context, error_key, Str("Request failed: " \o http.err)),
              -1, {error_key}, <<ModerationsPost>>, payload)
  ELSE IF StatusIsError(http.status_code)
  THEN Return(Put(context, error_key, Str(HttpErrorMessage(http))),
              -1, {error_key}, <<ModerationsPost>>, payload)
  ELSE
  LET result == ParseJSON(http.text) IN
  IF result.t = "invalid"
  THEN Return(Put(context, error_key, Str("Error parsing response: JSONDecodeError")),
              -1, {error_key}, <<ModerationsPost>>, payload)
  ELSE Return(Put(context, set_name, result), 0, {set_name}, <<ModerationsPost>>, payload)

\* ------------------------------------------------------------------------
\* ai_mistral_image_gen
\* ------------------------------------------------------------------------
\* What the provider and the machine do during one image call:
\*   makedirs      "ok" or "raise" (os.makedirs)
\*   agent         "ok" or "raise" (client.beta.agents.create)
\*   conversation  "ok" or "raise" (client.beta.conversations.start)
\*   outputs       response.outputs: a sequence of outputs, each the sequence
\*                 of its content chunks
\*   uid           the value of uuid.uuid4()
TextChunk == [type |-> "MessageOutputContentChunk", file_id |-> ""]
ToolFileChunk(id) == [type |-> "ToolFileChunk", file_id |-> id]

NoImage == [makedirs |-> "", agent |-> "", conversation |-> "", outputs |-> <<>>, uid |-> ""]

\* client.files.download(file_id=...).read()
Download(file_id) ==
  CASE file_id = "file-a" -> [exc |-> "", bytes |-> "PNG-a"]
    [] file_id = "file-b" -> [exc |-> "", bytes |-> "PNG-b"]
    [] file_id = "file-empty" -> [exc |-> "", bytes |-> ""]
    [] OTHER -> [exc |-> "SDKError", bytes |-> ""]

\* os.path.join(a, b) for a relative b
PathJoin(a, b) ==
  IF a = "" THEN b
  ELSE IF SubSeq(a, Len(a), Len(a)) = "/" THEN a \o b
  ELSE a \o "/" \o b

\* os.path.join(output_dir, f"{uid}_{i}.png")
FileName(output_dir, uid, i) == PathJoin(output_dir, uid \o "_" \o ToString(i) \o ".png")

\* the loop `for i, chunk in enumerate(content)`, from the chunk at position
\* pos (1-based; enumerate's i is pos - 1).  acc carries saved_files, the
\* downloads made and the exception that ended the loop, if any.
RECURSIVE SaveChunks(_, _, _, _, _)
SaveChunks(content, pos, output_dir, uid, acc) ==
  IF pos > Len(content) THEN acc
  ELSE LET chunk == content[pos] IN
    IF chunk.type # "ToolFileChunk"
    THEN SaveChunks(content, pos + 1, output_dir, uid, acc)
    ELSE LET got == Download(chunk.file_id)
             acc1 == [acc EXCEPT !.net = Append(@, "files.download " \o chunk.file_id)]
         IN
         IF got.exc # "" THEN [acc1 EXCEPT !.exc = got.exc]
         ELSE IF got.bytes = "" THEN SaveChunks(content, pos + 1, output_dir, uid, acc1)
         ELSE SaveChunks(content, pos + 1, output_dir, uid,
                [acc1 EXCEPT !.saved = Append(@, FileName(output_dir, uid, pos - 1))])

\* a store that takes the most recent file as the primary result
StoreImagesLatest(context, set_name, saved_files) ==
  Put(Put(context, set_name, Str(saved_files[Len(saved_files)])),
      set_name \o "_all", List([i \in 1..Len(saved_files) |-> Str(saved_files[i])]))

\* context[set_name] = saved_files[0]; context[f"{set_name}_all"] = saved_files
StoreImages(context, set_name, saved_files) ==
  Put(Put(context, set_name, Str(saved_files[1])),
      set_name \o "_all", List([i \in 1..Len(saved_files) |-> Str(saved_files[i])]))

ai_mistral_image_gen(args, context, env) ==
  LET set_name == DictGet(context, "set_context", Str("prev")).v
      error_key == set_name \o "_error"
      API_KEY == DictGet(context, "MISTRAL_API_KEY", None)
      output_dir == DictGet(context, "output_dir", Str("output"))
  IN
  IF ~Truthy(args) \/ ~Truthy(args.v[1])
  THEN Return(Put(context, error_key,
                  Str("Usage: ai_mistral_image_gen <prompt>\nMissing prompt in args[0]")),
              1, {error_key}, <<>>, NoPayload)
  ELSE IF MissingKey(API_KEY)
  THEN Return(Put(context, error_key, Str("MISTRAL_API_KEY not set in context.")),
              1, {error_key}, <<>>, NoPayload)
  ELSE IF output_dir.t # "str" THEN Raise(context, "TypeError", {}, <<>>, NoPayload)
  ELSE IF env.makedirs # "ok" THEN Raise(context, "OSError", {}, <<>>, NoPayload)
  ELSE IF env.agent # "ok"
  THEN Return(Put(context, error_key, Str("Failed to create agent: SDKError")),
              1, {error_key}, <<"agents.create">>, NoPayload)
  ELSE IF env.conversation # "ok"
  THEN Return(Put(context, error_key, Str("Conversation error: SDKError")),
              1, {error_key}, <<"agents.create", "conversations.start">>, args.v[1])
  ELSE
  LET calls == <<"agents.create", "conversations.start">>
      inputs == args.v[1]
  IN
  IF Len(env.outputs) = 0
  THEN Return(Put(context, error_key, Str("Error saving images: IndexError")),
              1, {error_key}, calls, inputs)
  ELSE
  LET content == env.outputs[Len(env.outputs)]
      loop == SaveChunks(content, 1, output_dir.v, env.uid,
                         [saved |-> <<>>, net |-> calls, exc |-> ""])
      saved_files == loop.saved
      r == IF loop.exc # ""
           THEN Return(Put(context, error_key, Str("Error saving images: " \o loop.exc)),
                       1, {error_key}, loop.net, inputs)
           ELSE IF Len(saved_files) = 0
           THEN Return(Put(context, error_key, Str("No images were generated.")),
                       1, {error_key}, loop.net, inputs)
           ELSE Return(StoreImages(context, set_name, saved_files),
                       0, {set_name, set_name \o "_all"}, loop.net, inputs)
  IN [r EXCEPT !.files = saved_files]

\* ------------------------------------------------------------------------
\* State
\* ------------------------------------------------------------------------
VARIABLES
  ctx,       \* the context dict shared by the calls
  last,      \* record of the most recent command call
  calls,     \* number of command calls made so far
  disk,      \* the files written under the output directories
  pc,        \* "start" until a command-line entry point has run, then "exited"
  stdout,    \* what the entry point printed, in order
  exitcode   \* the process exit status, as Num(n); None while running

vars == <<ctx, last, calls, disk, pc, stdout, exitcode>>

\* ------------------------------------------------------------------------
\* Inputs
\* ------------------------------------------------------------------------
Key == "MISTRAL_API_KEY" :> Str("sk-test")
SystemPrompt == "SYSTEM_PROMPT" :> Str("Be brief")
Messages == "MISTRAL_MESSAGES" :> List(<<Message("system", Str("You are terse"))>>)
SetOut == "set_context" :> Str("out")

\* the contexts a caller may hand over (the "context" entry of the JSON file)
InitContexts ==
  { <<>>,
    SetOut,
    "MISTRAL_API_KEY" :> Str(""),
    Key,
    Key @@ SetOut @@ SystemPrompt @@ ("output_dir" :> Str("imgs/")),
    Key @@ SystemPrompt @@ Messages @@ ("MISTRAL_TEMPERATURE" :> Num(1)),
    Key @@ SetOut @@ Messages @@ ("MISTRAL_MODEL" :> Str("mistral-small-latest")) }

TextArgs == { None, List(<<>>), List(<<Str("Hello")>>), List(<<Str("Hello"), Str("high")>>) }
EmbeddingsArgs ==
  { None, List(<<>>), List(<<None>>), List(<<Str("cat")>>), List(<<List(<<Str("cat"), Str("dog")>>)>>) }
ModerationsArgs == { None, List(<<>>), List(<<None>>), List(<<Str("some text")>>) }
ImageArgs == { None, List(<<>>), List(<<Str("")>>), List(<<Str("a red fox")>>) }

TextHttp ==
  { Transport("Connection refused"),
    Response(200, BodyChat), Response(200, BodyNoChoices), Response(200, BodyEmptyObj),
    Response(200, BodyNotJSON), Response(201, BodyChat),
    Response(401, BodyUnauthorized), Response(502, BodyNotJSON) }

EmbeddingsHttp ==
  { Transport("Read timed out"),
    Response(200, BodyOneEmbedding), Response(200, BodyTwoEmbeddings),
    Response(200, BodyItemNoEmbedding), Response(200, BodyItemNotDict),
    Response(200, BodyNotJSON), Response(201, BodyOneEmbedding),
    Response(401, BodyUnauthorized) }

ModerationsHttp ==
  { Transport("Connection refused"),
    Response(200, BodyModeration), Response(200, BodyNotJSON),
    Response(204, BodyModeration), Response(401, BodyUnauthorized) }

ChunkKinds == { TextChunk, ToolFileChunk("file-a"), ToolFileChunk("file-empty"),
                ToolFileChunk("file-gone") }
Contents == UNION { [1..n -> ChunkKinds] : n \in 0..MaxChunks }

ImageEnv(m, a, c, o) ==
  [makedirs |-> m, agent |-> a, conversation |-> c, outputs |-> o, uid |-> "3f2a"]

ImageEnvs ==
  { ImageEnv("raise", "ok", "ok", <<>>), ImageEnv("ok", "raise", "ok", <<>>),
    ImageEnv("ok", "ok", "raise", <<>>), ImageEnv("ok", "ok", "ok", <<>>),
    ImageEnv("ok", "ok", "ok", << <<ToolFileChunk("file-b")>>, <<ToolFileChunk("file-a")>> >>) }
  \cup { ImageEnv("ok", "ok", "ok", <<content>>) : content \in Contents }

\* ------------------------------------------------------------------------
\* Initial state and the calls
\* ------------------------------------------------------------------------
NoCall ==
  [cmd |-> "", args |-> None, pre |-> <<>>, ret |-> None, exc |-> "", written |-> {},
   net |-> <<>>, payload |-> NoPayload, files |-> <<>>, http |-> NoHttp, img |-> NoImage]

Init ==
  /\ ctx \in InitContexts
  /\ last = NoCall
  /\ calls = 0
  /\ disk = {}
  /\ pc = "start"
  /\ stdout = <<>>
  /\ exitcode = None

\* the record of a call: what was passed, what came back, and the part of the
\* environment the call got to see
Record(name, args, r, http, img) ==
  [cmd |-> name, args |-> args, pre |-> ctx, ret |-> r.ret, exc |-> r.exc,
   written |-> r.written, net |-> r.net, payload |-> r.payload, files |-> r.files,
   http |-> IF r.net = <<>> THEN NoHttp ELSE http,
   img |-> IF r.net = <<>> /\ r.exc = "" THEN NoImage ELSE img]

Called(name, args, r, http, img) ==
  /\ ctx' = r.ctx
  /\ last' = Record(name, args, r, http, img)
  /\ calls' = calls + 1
  /\ disk' = disk \cup { r.files[i] : i \in 1..Len(r.files) }

\* The remote's answer is drawn only for a call that gets as far as needing
\* it: a call that returns on its argument or key check, run with no remote
\* at all, makes no outbound call and raises nothing.
SettledLocally(r) == r.net = <<>> /\ r.exc = ""

TextCall(args) ==
  LET r0 == ai_mistral_text(args, ctx, NoHttp) IN
  IF SettledLocally(r0)
  THEN Called("ai_mistral_text", args, r0, NoHttp, NoImage)
  ELSE \E http \in TextHttp :
         Called("ai_mistral_text", args, ai_mistral_text(args, ctx, http), http, NoImage)

EmbeddingsCall(args) ==
  LET r0 == ai_mistral_embeddings(args, ctx, NoHttp) IN
  IF SettledLocally(r0)
  THEN Called("ai_mistral_embeddings", args, r0, NoHttp, NoImage)
  ELSE \E http \in EmbeddingsHttp :
         Called("ai_mistral_embeddings", args, ai_mistral_embeddings(args, ctx, http),
                http, NoImage)

ModerationsCall(args) ==
  LET r0 == mistral_moderations(args, ctx, NoHttp) IN
  IF SettledLocally(r0)
  THEN Called("mistral_moderations", args, r0, NoHttp, NoImage)
  ELSE \E http \in ModerationsHttp :
         Called("mistral_moderations", args, mistral_moderations(args, ctx, http),
                http, NoImage)

ImageGenCall(args) ==
  LET r0 == ai_mistral_image_gen(args, ctx, NoImage) IN
  IF SettledLocally(r0)
  THEN Called("ai_mistral_image_gen", args, r0, NoHttp, NoImage)
  ELSE \E env \in ImageEnvs :
         Called("ai_mistral_image_gen", args, ai_mistral_image_gen(args, ctx, env),
                NoHttp, env)

CallText ==
  /\ pc = "start" /\ calls < MaxCalls
  /\ \E args \in TextArgs : TextCall(args)
  /\ UNCHANGED <<pc, stdout, exitcode>>

CallEmbeddings ==
  /\ pc = "start" /\ calls < MaxCalls
  /\ \E args \in EmbeddingsArgs : EmbeddingsCall(args)
  /\ UNCHANGED <<pc, stdout, exitcode>>

CallModerations ==
  /\ pc = "start" /\ calls < MaxCalls
  /\ \E args \in ModerationsArgs : ModerationsCall(args)
  /\ UNCHANGED <<pc, stdout, exitcode>>

CallImageGen ==
  /\ pc = "start" /\ calls < MaxCalls
  /\ \E args \in ImageArgs : ImageGenCall(args)
  /\ UNCHANGED <<pc, stdout, exitcode>>

Next == CallText \/ CallEmbeddings \/ CallModerations \/ CallImageGen

Spec == Init /\ [][Next]_vars

\* ------------------------------------------------------------------------
\* The command-line entry points (`if __name__ == "__main__":`)
\* ------------------------------------------------------------------------
\* how the start of the script goes: no path argument, no such file, a file
\* that is not JSON, or a file that loads
Launches == {"no_argv", "no_file", "bad_json", "run"}

LaunchMessage(launch, usage) ==
  CASE launch = "no_argv" -> usage
    [] launch = "no_file" -> "Error: JSON file 'data.json' not found."
    [] OTHER -> "Error parsing data.json: Expecting value: line 1 column 1 (char 0)"

\* str(x) as print applies it: a string prints as itself, anything else as its
\* rendering, kept as a term over the value
PyStr(x) == IF x.t = "str" THEN x ELSE [t |-> "str()", v |-> x]

\* json.dumps(x, indent=2), kept as a term over the value
JsonDumps(x) == [t |-> "json.dumps(indent=2)", v |-> x]

\* f"{prefix}{x}"
FString(prefix, x) ==
  IF x.t = "str" THEN Str(prefix \o x.v) ELSE [t |-> "fstring", v |-> <<Str(prefix), x>>]

\* print(context.get(f"{set_name}_error", "Unknown error"))
PrintError(c) ==
  LET set_name == DictGet(c, "set_context", Str("prev")).v IN
  <<PyStr(DictGet(c, set_name \o "_error", Str("Unknown error")))>>

\* the prints of the text and embeddings scripts after the command returned
PrintPlain(r) ==
  LET set_name == DictGet(r.ctx, "set_context", Str("prev")).v IN
  IF r.ret = Num(0) THEN <<PyStr(DictGet(r.ctx, set_name, Str("")))>> ELSE PrintError(r.ctx)

\* the prints of the moderation script
PrintJson(r) ==
  LET set_name == DictGet(r.ctx, "set_context", Str("prev")).v IN
  IF r.ret = Num(0) THEN <<JsonDumps(DictGet(r.ctx, set_name, EmptyDict))>>
  ELSE PrintError(r.ctx)

\* the prints of the image script
PrintImages(r) ==
  LET set_name == DictGet(r.ctx, "set_context", Str("prev")).v IN
  IF r.ret = Num(0)
  THEN <<FString("Saved image: ", r.ctx[set_name]),
         FString("All images: ", DictGet(r.ctx, set_name \o "_all", List(<<>>)))>>
  ELSE PrintError(r.ctx)

\* One run of a script.  An exception that leaves the command ends the
\* process with a traceback on stderr and exit status 1; a script that runs
\* to its end exits with status 0.
Main(name, usage, launch, args, r, http, img, out) ==
  /\ pc = "start" /\ calls = 0
  /\ pc' = "exited"
  /\ IF launch # "run"
     THEN /\ stdout' = <<Str(LaunchMessage(launch, usage))>>
          /\ exitcode' = Num(1)
          /\ UNCHANGED <<ctx, last, calls, disk>>
     ELSE /\ Called(name, args, r, http, img)
          /\ stdout' = IF r.exc # "" THEN <<>> ELSE out
          /\ exitcode' = IF r.exc # "" THEN Num(1) ELSE Num(0)

MainText ==
  \E launch \in Launches, args \in TextArgs, http \in TextHttp :
    LET r == ai_mistral_text(args, ctx, http) IN
    Main("ai_mistral_text", "Usage: python ai_mistral.py <data.json>",
         launch, args, r, http, NoImage, PrintPlain(r))

MainEmbeddings ==
  \E launch \in Launches, args \in EmbeddingsArgs, http \in EmbeddingsHttp :
    LET r == ai_mistral_embeddings(args, ctx, http) IN
    Main("ai_mistral_embeddings", "Usage: python ai_mistral_embeddings.py <data.json>",
         launch, args, r, http, NoImage, PrintPlain(r))

MainModerations ==
  \E launch \in Launches, args \in ModerationsArgs, http \in ModerationsHttp :
    LET r == mistral_moderations(args, ctx, http) IN
    Main("mistral_moderations", "Usage: python mistral_moderations.py <data.json>",
         launch, args, r, http, NoImage, PrintJson(r))

MainImageGen ==
  \E launch \in Launches, args \in ImageArgs, env \in ImageEnvs :
    LET r == ai_mistral_image_gen(args, ctx, env) IN
    Main("ai_mistral_image_gen", "Usage: python ai_mistral_image_gen.py <data.json>",
         launch, args, r, NoHttp, env, PrintImages(r))

NextCLI == MainText \/ MainEmbeddings \/ MainModerations \/ MainImageGen

SpecCLI == Init /\ [][NextCLI]_vars

\* ------------------------------------------------------------------------
\* Properties
\* ------------------------------------------------------------------------
\* the storage key the last call resolved: context.get("set_context", "prev")
SetName == DictGet(last.pre, "set_context", Str("prev")).v
ErrorKey == SetName \o "_error"
AllKey == SetName \o "_all"
UsageKey == SetName \o "_usage"

\* the last call came back with a nonzero status and left a non-empty error
\* string under the error key
FailedWithError ==
  /\ last.exc = ""
  /\ last.ret.t = "num" /\ last.ret.v # 0
  /\ ErrorKey \in last.written
  /\ ErrorKey \in DOMAIN ctx
  /\ ctx[ErrorKey].t = "str" /\ ctx[ErrorKey].v # ""

\* the last call came back with status 0 and wrote the result key
Succeeded ==
  /\ last.exc = ""
  /\ last.ret = Num(0)
  /\ SetName \in last.written
  /\ SetName \in DOMAIN ctx

\* the arguments of the last call get past the command's argument check
ArgsAccepted ==
  /\ Truthy(last.args)
  /\ last.cmd \in {"ai_mistral_embeddings", "mistral_moderations"} => last.args.v[1].t # "null"
  /\ last.cmd = "ai_mistral_image_gen" => Truthy(last.args.v[1])

\* C1: when a command is called with empty or absent arguments it returns a
\* nonzero status, writes a non-empty string under "{set_context}_error" and
\* does not write "{set_context}".
C1_EmptyArgsStoreError ==
  (last.cmd # "" /\ ~Truthy(last.args)) =>
    (FailedWithError /\ SetName \notin last.written)

\* C2: every failing outcome of the external call (transport failure,
\* non-success status, success status with a body that is not JSON, success
\* status with an empty choices list) ends with a nonzero status and an error
\* string under "{set_context}_error", never with an exception leaving the
\* command.
C2_ExternalFailureCaught ==
  ( /\ last.net # <<>>
    /\ \/ /\ last.cmd \in {"ai_mistral_text", "ai_mistral_embeddings", "mistral_moderations"}
          /\ \/ ~last.http.ok
             \/ last.http.status_code \notin 200..299
             \/ ParseJSON(last.http.text).t = "invalid"
             \/ last.http.text = BodyNoChoices
       \/ /\ last.cmd = "ai_mistral_image_gen"
          /\ \/ last.img.agent # "ok"
             \/ last.img.conversation # "ok"
             \/ last.img.outputs = <<>> )
  => FailedWithError

\* C3: when the arguments pass validation but MISTRAL_API_KEY is missing or
\* empty, the command returns a nonzero status, stores under
\* "{set_context}_error" a message naming the API key, and makes no outbound
\* call (no POST, no agent creation, no conversation, no download).
C3_MissingKeyNoCall ==
  ( /\ last.cmd # ""
    /\ ArgsAccepted
    /\ ~Truthy(DictGet(last.pre, "MISTRAL_API_KEY", None)) )
  => ( /\ FailedWithError
       /\ Contains(ctx[ErrorKey].v, "MISTRAL_API_KEY")
       /\ last.net = <<>>
       /\ last.files = <<>> )

\* an image call with valid arguments and an empty key entry returned 1
\* without any outbound call
C3_Witness ==
  /\ last.cmd = "ai_mistral_image_gen"
  /\ ArgsAccepted
  /\ "MISTRAL_API_KEY" \in DOMAIN last.pre
  /\ last.pre["MISTRAL_API_KEY"] = Str("")
  /\ last.ret = Num(1)
  /\ last.net = <<>>

\* the body is JSON of the shape the command's endpoint answers with
WellFormed ==
  \/ last.cmd = "ai_mistral_text" /\ last.http.text = BodyChat
  \/ last.cmd = "ai_mistral_embeddings"
       /\ last.http.text \in {BodyOneEmbedding, BodyTwoEmbeddings}
  \/ last.cmd = "mistral_moderations" /\ last.http.text = BodyModeration

\* the error string carries the status code and the raw body
ErrorHasStatusAndBody ==
  /\ FailedWithError
  /\ Contains(ctx[ErrorKey].v, ToString(last.http.status_code))
  /\ Contains(ctx[ErrorKey].v, last.http.text)

\* C4 as stated: the response is classified by status class; every non-2xx
\* status is a failure whose error string has the status code and the raw
\* body, and every well-formed 2xx response is stored under "{set_context}"
\* with status 0.
C4_ByStatusClass ==
  (last.cmd # "" /\ last.http.ok) =>
    /\ last.http.status_code \notin 200..299 => ErrorHasStatusAndBody
    /\ (last.http.status_code \in 200..299 /\ WellFormed) => Succeeded

\* C4 amended: the three commands that post the request themselves compare
\* the status with 200; every other status, other 2xx statuses included, is a
\* failure whose error string has the status code and the raw body, and every
\* well-formed 200 response is stored under "{set_context}" with status 0.
C4_ByStatus200 ==
  (last.cmd # "" /\ last.http.ok) =>
    /\ last.cmd \in {"ai_mistral_text", "ai_mistral_embeddings", "mistral_moderations"}
    /\ last.http.status_code # 200 => ErrorHasStatusAndBody
    /\ (last.http.status_code = 200 /\ WellFormed) =>
         (Succeeded /\ (last.cmd = "ai_mistral_text" => ctx[SetName] = Str("Hi")))

\* a 2xx response other than 200 was turned into an error
C4_Witness ==
  /\ last.cmd = "mistral_moderations"
  /\ last.http.ok
  /\ last.http.status_code = 204
  /\ ErrorHasStatusAndBody

\* C5: the storage key is context["set_context"] when present and "prev" when
\* absent; every success result is written under exactly that key, every
\* failure message (the usage failure for missing arguments included) under
\* that key suffixed with "_error", and nothing under "prev" or "prev_error"
\* when set_context is a different key.
C5_StorageKeys ==
  (last.cmd # "" /\ last.exc = "") =>
    /\ last.ret = Num(0) => SetName \in last.written
    /\ last.ret # Num(0) => ErrorKey \in last.written
    /\ SetName # "prev" => last.written \cap {"prev", "prev_error"} = {}

\* the user message carrying args[0]
UserMessage == Message("user", last.args.v[1])

\* C6: in ai_mistral_text, with MISTRAL_MESSAGES in the context the messages
\* sent are exactly that list followed by one user message carrying args[0],
\* and SYSTEM_PROMPT adds no message; without MISTRAL_MESSAGES they are a
\* system message (only when SYSTEM_PROMPT is non-empty) followed by the user
\* message.
C6_MessagesSent ==
  (last.cmd = "ai_mistral_text" /\ last.net # <<>>) =>
    LET sent == last.payload.v["messages"]
        system_prompt == DictGet(last.pre, "SYSTEM_PROMPT", Str(""))
    IN
    /\ sent.t = "list"
    /\ IF "MISTRAL_MESSAGES" \in DOMAIN last.pre
       THEN sent.v = last.pre["MISTRAL_MESSAGES"].v \o <<UserMessage>>
       ELSE IF system_prompt.v # ""
       THEN sent.v = <<Message("system", system_prompt), UserMessage>>
       ELSE sent.v = <<UserMessage>>

\* a request went out from a context holding both MISTRAL_MESSAGES and a
\* non-empty SYSTEM_PROMPT
C6_Witness ==
  /\ last.cmd = "ai_mistral_text"
  /\ last.net # <<>>
  /\ "MISTRAL_MESSAGES" \in DOMAIN last.pre
  /\ "SYSTEM_PROMPT" \in DOMAIN last.pre
  /\ last.pre["SYSTEM_PROMPT"].v # ""
  /\ Len(last.payload.v["messages"].v) = Len(last.pre["MISTRAL_MESSAGES"].v) + 1

\* the embedding vectors a response body carries, in response order
ResponseVectors ==
  CASE last.http.text = BodyOneEmbedding -> <<List(<<Num(1), Num(2)>>)>>
    [] last.http.text = BodyTwoEmbeddings ->
         <<List(<<Num(1), Num(2)>>), List(<<Num(3), Num(4)>>)>>
    [] OTHER -> <<>>

\* C7: in ai_mistral_embeddings, on a successful response, a single input
\* string with exactly one embedding in the response stores the bare vector
\* and not a one-element list; N > 1 embeddings store the list of the N
\* vectors in response order.
C7_EmbeddingsStored ==
  (last.cmd = "ai_mistral_embeddings" /\ last.ret = Num(0)) =>
    /\ (last.args.v[1].t = "str" /\ Len(ResponseVectors) = 1) =>
         /\ ctx[SetName] = ResponseVectors[1]
         /\ ctx[SetName] # List(<<ResponseVectors[1]>>)
    /\ Len(ResponseVectors) > 1 => ctx[SetName] = List(ResponseVectors)

\* a single string got back exactly one embedding
C7_Witness ==
  /\ last.cmd = "ai_mistral_embeddings"
  /\ last.ret = Num(0)
  /\ last.args.v[1].t = "str"
  /\ Len(ResponseVectors) = 1
  /\ ctx[SetName] = List(<<Num(1), Num(2)>>)

\* the content the image loop walks: response.outputs[-1].content
LastContent == last.img.outputs[Len(last.img.outputs)]

\* the positions of the chunks that are file chunks with bytes behind them
SavedPositions ==
  { i \in 1..Len(LastContent) :
      /\ LastContent[i].type = "ToolFileChunk"
      /\ Download(LastContent[i].file_id).exc = ""
      /\ Download(LastContent[i].file_id).bytes # "" }

\* the j-th smallest saved position
SavedPosition(j) ==
  CHOOSE p \in SavedPositions : Cardinality({ q \in SavedPositions : q < p }) = j - 1

\* the remote agent was created and the conversation came back
ConversationDone ==
  /\ last.cmd = "ai_mistral_image_gen"
  /\ Len(last.net) >= 2
  /\ last.img.agent = "ok" /\ last.img.conversation = "ok"

\* C8: in ai_mistral_image_gen, whenever the command returns 0,
\* "{set_context}_all" is the non-empty list of the saved file paths in the
\* order their chunks came in the content and "{set_context}" is its first
\* element; whenever agent creation and conversation succeed but no chunk
\* gives a saved file, the command fails, stores an error under
\* "{set_context}_error" and writes neither "{set_context}" nor
\* "{set_context}_all".
C8_ImagesStored ==
  /\ (last.cmd = "ai_mistral_image_gen" /\ last.ret = Num(0)) =>
       LET all == ctx[AllKey]
           dir == DictGet(last.pre, "output_dir", Str("output")).v
       IN
       /\ all.t = "list" /\ Len(all.v) > 0
       /\ Len(all.v) = Cardinality(SavedPositions)
       /\ \A j \in 1..Len(all.v) :
            /\ all.v[j] = Str(FileName(dir, last.img.uid, SavedPosition(j) - 1))
            /\ all.v[j].v \in disk
       /\ ctx[SetName] = all.v[1]
  /\ (ConversationDone /\ last.files = <<>>) =>
       /\ FailedWithError
       /\ SetName \notin last.written
       /\ AllKey \notin last.written

\* the call returned 0 after saving both chunks of a two-chunk content
C8_Witness ==
  /\ last.cmd = "ai_mistral_image_gen"
  /\ last.ret = Num(0)
  /\ SavedPositions = {1, 2}
  /\ Len(ctx[AllKey].v) = 2
  /\ ctx[SetName] = ctx[AllKey].v[1]

\* C9: once the JSON file is found and parsed, the process runs the command,
\* prints the command's designated value and exits with code 0 for every
\* command outcome, failures included.
C9_ExitZeroAfterRun ==
  (pc = "exited" /\ last.cmd # "") =>
    /\ exitcode = Num(0)
    /\ Len(stdout) > 0

\* the keys a command may write for the storage key of the last call
OutputKeys == {SetName, ErrorKey, AllKey, UsageKey}

\* C10: a call leaves every configuration entry of the context unchanged:
\* every key other than "{set_context}", "{set_context}_error",
\* "{set_context}_all" and "{set_context}_usage" has the value it had before
\* the call, the list under MISTRAL_MESSAGES included.
C10_ConfigurationUnchanged ==
  last.cmd # "" =>
    \A k \in (DOMAIN last.pre) \ OutputKeys : k \in DOMAIN ctx /\ ctx[k] = last.pre[k]

====
